---- MODULE Spec2Model ----
(***************************************************************************)
(* Model of the two scripts of the repository:                             *)
(*   sim_pipeline/gg_lens_pop.py      GGLensPop (population sampler)       *)
(*   slsim/roman_image_simulation.py  simulate_roman_image, get_psf        *)
(* Python strings that are formatted, upper-cased or compared are          *)
(* sequences of one-character strings; None is an explicit tag.            *)
(***************************************************************************)
EXTENDS Integers, Sequences, FiniteSets, TLC

VARIABLES
    pop,        \* the GGLensPop object most recently constructed
    rng,        \* state of the catalog toolkit's random generator
    nInit,      \* number of GGLensPop(...) constructor calls so far
    lastInit,   \* arguments, outcome and call trace of the last constructor call
    lastSel,    \* <<record>> returned by the last select_lens_at_random, or <<>>
    firstDraws, \* first record drawn from each population, with its seed and cuts
    dp,         \* draw_population: program counter, locals and call counters
    fs,         \* PSF files on disk: path -> content
    fsChanged,  \* TRUE when the files changed after the last simulate call
    lastPsf,    \* arguments and result of the last get_psf call
    request,    \* the arguments the caller passes to simulate_roman_image
    lastImg     \* arguments and result of the last simulate_roman_image call

vars == <<pop, rng, nInit, lastInit, lastSel, firstDraws, dp,
          fs, fsChanged, lastPsf, request, lastImg>>

popVars == <<pop, rng, nInit, lastInit, lastSel, firstDraws, dp>>
romanVars == <<fs, fsChanged, lastPsf, request, lastImg>>

(***************************************************************************)
(* Bounds of the model.                                                    *)
(***************************************************************************)
MaxInits == 2
MaxSeed == 1
MaxRepeat == 2
MaxNumPix == 2
MaxOversample == 2

Min(a, b) == IF a < b THEN a ELSE b
Max(a, b) == IF a < b THEN b ELSE a

(***************************************************************************)
(* Optional keyword arguments: None, or a dict given as a set of           *)
(* <<key, value>> pairs.                                                   *)
(***************************************************************************)
NoneArg == [is_none |-> TRUE, items |-> {}]
Dict(s) == [is_none |-> FALSE, items |-> s]

\* gg_lens_pop.py 26-29, 37-38: "if kwargs is None: kwargs = {}"
OrEmptyDict(k) == IF k.is_none THEN Dict({}) ELSE k

(***************************************************************************)
(* Collaborators of GGLensPop that live outside the two source files:      *)
(* the catalog pipeline, the cut/selection classes, the lens record.       *)
(***************************************************************************)
\* SkyPyPipeline(...).red_galaxies: the table of candidate deflectors
RedGalaxies == << [z |-> 1], [z |-> 2], [z |-> 3] >>

\* SkyPyPipeline(...).blue_galaxies: the table of candidate sources
BlueGalaxies == << [z |-> 2], [z |-> 3], [z |-> 4] >>

\* one key of a cut dict, or the default when the key is absent
CutValue(kwargs, key, default) ==
    IF \E p \in kwargs.items : p[1] = key
    THEN (CHOOSE p \in kwargs.items : p[1] = key)[2]
    ELSE default

\* the galaxies of a table that pass a cut on redshift
ApplyCut(table, kwargs) ==
    SelectSeq(table, LAMBDA g : /\ g.z >= CutValue(kwargs, "z_min", 0)
                                /\ g.z <= CutValue(kwargs, "z_max", 9))

\* the random generator of the catalog toolkit: one step
NextRand(s) == (5 * s + 3) % 8

\* Galaxies.draw_galaxy / EarlyTypeLensGalaxies.draw_deflector: one galaxy
\* of the selection, picked by the random generator
DrawFrom(selection, s) == selection[(s % Len(selection)) + 1]

\* GGLens(deflector_dict, source_dict, cosmo)
GGLens(lens, source, cosmo) ==
    [deflector_dict |-> lens, source_dict |-> source, cosmo |-> cosmo]

\* GGLens.validity_test: the deflector lies in front of the source
validity_test(gg_lens) == gg_lens.deflector_dict.z < gg_lens.source_dict.z

(***************************************************************************)
(* Inputs.                                                                 *)
(***************************************************************************)
LensTypes == {"early-type", "late-type"}
SourceTypes == {"galaxies", "quasars"}
Seeds == 0..MaxSeed
Cosmos == {"cosmo"}
LensCuts == {NoneArg, Dict({<<"z_max", 1>>}), Dict({<<"z_min", 3>>})}
SourceCuts == {NoneArg, Dict({<<"z_max", 3>>})}

(***************************************************************************)
(* GGLensPop.__init__                                                      *)
(***************************************************************************)
NoPop == [built |-> FALSE]
NoInit == [outcome |-> "none", trace |-> <<>>]

\* the calls __init__ makes, in order, up to its return or its raise
InitTrace(lens_type, source_type) ==
    <<"SkyPyPipeline">>
    \o (IF lens_type = "early-type"
        THEN <<"pipeline.red_galaxies", "EarlyTypeLensGalaxies">>
             \o (IF source_type = "galaxies"
                 THEN <<"pipeline.blue_galaxies", "Galaxies", "return">>
                 ELSE <<"raise ValueError">>)
        ELSE <<"raise ValueError">>)

InitOutcome(lens_type, source_type) ==
    IF lens_type = "early-type" /\ source_type = "galaxies"
    THEN "ok" ELSE "ValueError"

\* the object a successful __init__ leaves
NewPop(kwargs_lens_cut, kwargs_source_cut, cosmo, seed) ==
    [built |-> TRUE,
     lens_galaxies |-> ApplyCut(RedGalaxies, OrEmptyDict(kwargs_lens_cut)),
     source_galaxies |-> ApplyCut(BlueGalaxies, OrEmptyDict(kwargs_source_cut)),
     cosmo |-> cosmo,
     kwargs_lens_cut |-> kwargs_lens_cut,
     kwargs_source_cut |-> kwargs_source_cut,
     seed |-> seed,
     drawn |-> FALSE]

DpIdle ==
    [pc |-> "idle", i |-> 0, budget |-> 0, num_lens_systems |-> 0,
     population |-> <<>>, nSource |-> 0, nDeflector |-> 0, nGGLens |-> 0,
     nValidity |-> 0, nValid |-> 0, order |-> <<>>,
     result |-> [type |-> "none"]]

\* lines 10-44: GGLensPop(lens_type, source_type, kwargs_lens_cut,
\* kwargs_source_cut, cosmo). __init__ takes no seed: `seed` is the state the
\* caller left the catalog toolkit's random generator in.
GGLensPop_init(lens_type, source_type, kwargs_lens_cut, kwargs_source_cut, cosmo, seed) ==
    /\ dp.pc # "loop"
    /\ nInit < MaxInits
    /\ nInit' = nInit + 1
    /\ lastInit' = [outcome |-> InitOutcome(lens_type, source_type),
                    trace |-> InitTrace(lens_type, source_type),
                    lens_type |-> lens_type,
                    source_type |-> source_type]
    /\ IF InitOutcome(lens_type, source_type) = "ok"
       THEN /\ pop' = NewPop(kwargs_lens_cut, kwargs_source_cut, cosmo, seed)
            /\ rng' = seed
       ELSE UNCHANGED <<pop, rng>>
    /\ UNCHANGED <<lastSel, firstDraws, dp>>
    /\ UNCHANGED romanVars

Construct ==
    \E lt \in LensTypes, st \in SourceTypes, lc \in LensCuts, sc \in SourceCuts,
       c \in Cosmos, s \in Seeds :
        GGLensPop_init(lt, st, lc, sc, c, s)

(***************************************************************************)
(* GGLensPop.select_lens_at_random                                         *)
(***************************************************************************)
\* a select_lens_at_random that keeps the source of the previous call,
\* whichever population drew it, and then draws the deflector only
select_lens_at_random_stale(p, s) ==
    IF lastSel = <<>>
    THEN GGLens(DrawFrom(p.lens_galaxies, NextRand(s)),
                DrawFrom(p.source_galaxies, s), p.cosmo)
    ELSE GGLens(DrawFrom(p.lens_galaxies, s), lastSel[1].source_dict, p.cosmo)

\* lines 55-57: the source is drawn first, then the deflector
select_lens_at_random(p, s) ==
    GGLens(DrawFrom(p.lens_galaxies, NextRand(s)),
           DrawFrom(p.source_galaxies, s),
           p.cosmo)

SelectLens ==
    /\ dp.pc # "loop"
    /\ pop.built
    /\ lastSel' = << select_lens_at_random(pop, rng) >>
    /\ rng' = NextRand(NextRand(rng))
    /\ pop' = [pop EXCEPT !.drawn = TRUE]
    /\ firstDraws' =
         IF pop.drawn THEN firstDraws
         ELSE Append(firstDraws,
                     [seed |-> pop.seed,
                      kwargs_lens_cut |-> pop.kwargs_lens_cut,
                      kwargs_source_cut |-> pop.kwargs_source_cut,
                      cosmo |-> pop.cosmo,
                      record |-> select_lens_at_random(pop, rng)])
    /\ UNCHANGED <<nInit, lastInit, dp>>
    /\ UNCHANGED romanVars

(***************************************************************************)
(* GGLensPop.draw_population                                               *)
(***************************************************************************)
\* line 77: "for _ in range(100)"
NumTrials == 100

\* a loop that runs once per estimated lens system
TrialBudgetEstimated(num_lens_systems) == num_lens_systems

\* line 77: the number of trials of the loop, given the estimate of line 75
TrialBudget(num_lens_systems) == NumTrials

\* lines 82-83: the system is appended when validity_test() is true
PopulationAfterTrial(population, gg_lens) ==
    IF validity_test(gg_lens) THEN Append(population, gg_lens) ELSE population

\* line 84: the value draw_population returns
DrawPopulationResult(population) == [type |-> "int", number |-> Len(population)]

\* lines 71-76: the empty list and the estimated number of lens systems
DrawPopulationStart ==
    /\ dp.pc # "loop"
    /\ pop.built
    /\ dp' = [DpIdle EXCEPT
                !.pc = "loop",
                !.num_lens_systems = Len(pop.lens_galaxies) * Len(pop.source_galaxies),
                !.budget = TrialBudget(Len(pop.lens_galaxies) * Len(pop.source_galaxies))]
    /\ UNCHANGED <<pop, rng, nInit, lastInit, lastSel, firstDraws>>
    /\ UNCHANGED romanVars

\* lines 78-83: one pass of the loop body
DrawPopulationTrial ==
    /\ dp.pc = "loop"
    /\ dp.i < dp.budget
    /\ LET source == DrawFrom(pop.source_galaxies, rng)
           lens == DrawFrom(pop.lens_galaxies, NextRand(rng))
           gg_lens == GGLens(lens, source, pop.cosmo)
       IN  dp' = [dp EXCEPT
                    !.i = @ + 1,
                    !.nSource = @ + 1,
                    !.nDeflector = @ + 1,
                    !.nGGLens = @ + 1,
                    !.nValidity = @ + 1,
                    !.nValid = @ + (IF validity_test(gg_lens) THEN 1 ELSE 0),
                    !.order = <<"draw_galaxy", "draw_deflector", "GGLens", "validity_test">>,
                    !.population = PopulationAfterTrial(@, gg_lens)]
    /\ rng' = NextRand(NextRand(rng))
    /\ pop' = [pop EXCEPT !.drawn = TRUE]
    /\ UNCHANGED <<nInit, lastInit, lastSel, firstDraws>>
    /\ UNCHANGED romanVars

\* line 84: the loop is over, the function returns
DrawPopulationReturn ==
    /\ dp.pc = "loop"
    /\ dp.i >= dp.budget
    /\ dp' = [dp EXCEPT !.pc = "done",
                        !.result = DrawPopulationResult(dp.population)]
    /\ UNCHANGED <<pop, rng, nInit, lastInit, lastSel, firstDraws>>
    /\ UNCHANGED romanVars

(***************************************************************************)
(* Specifications of the population sampler.                               *)
(***************************************************************************)
InitPop ==
    /\ pop = NoPop
    /\ rng = 0
    /\ nInit = 0
    /\ lastInit = NoInit
    /\ lastSel = <<>>
    /\ firstDraws = <<>>
    /\ dp = DpIdle

InitRoman ==
    /\ fs = {}
    /\ fsChanged = FALSE
    /\ lastPsf = <<>>
    /\ lastImg = <<>>


(***************************************************************************)
(* slsim/roman_image_simulation.py: strings.                               *)
(***************************************************************************)
LowerLetters == <<"a", "b", "c", "d", "e", "f", "g", "h", "i", "j", "k", "l", "m",
                  "n", "o", "p", "q", "r", "s", "t", "u", "v", "w", "x", "y", "z">>
UpperLetters == <<"A", "B", "C", "D", "E", "F", "G", "H", "I", "J", "K", "L", "M",
                  "N", "O", "P", "Q", "R", "S", "T", "U", "V", "W", "X", "Y", "Z">>
Digits == <<"0", "1", "2", "3", "4", "5", "6", "7", "8", "9">>

UpperChar(c) ==
    IF \E k \in DOMAIN LowerLetters : LowerLetters[k] = c
    THEN UpperLetters[CHOOSE k \in DOMAIN LowerLetters : LowerLetters[k] = c]
    ELSE c

\* str.upper()
Upper(str) == [k \in DOMAIN str |-> UpperChar(str[k])]

\* str(n) of an integer n >= 0
RECURSIVE IntStr(_)
IntStr(n) ==
    IF n < 10 THEN << Digits[n + 1] >>
    ELSE IntStr(n \div 10) \o << Digits[(n % 10) + 1] >>

\* str.zfill(width)
RECURSIVE zfill(_, _)
zfill(str, width) == IF Len(str) >= width THEN str ELSE zfill(<<"0">> \o str, width)

\* os.path.join(directory, name)
PathJoin(directory, name) == directory \o <<"/">> \o name

F106 == <<"F", "1", "0", "6">>
f106 == <<"f", "1", "0", "6">>
F129 == <<"F", "1", "2", "9">>

\* lines 297-306: the Roman band names and their galsim keys
translate ==
    { << <<"F", "0", "6", "2">>, <<"R", "0", "6", "2">> >>,
      << <<"F", "0", "8", "7">>, <<"Z", "0", "8", "7">> >>,
      << <<"F", "1", "0", "6">>, <<"Y", "1", "0", "6">> >>,
      << <<"F", "1", "2", "9">>, <<"J", "1", "2", "9">> >>,
      << <<"F", "1", "5", "8">>, <<"H", "1", "5", "8">> >>,
      << <<"F", "1", "8", "4">>, <<"F", "1", "8", "4">> >>,
      << <<"F", "1", "4", "6">>, <<"W", "1", "4", "9">> >>,
      << <<"F", "2", "1", "3">>, <<"K", "2", "1", "3">> >> }

\* get_bandpass_key: translate[band.upper()], a KeyError for an unknown band
get_bandpass_key(band) ==
    IF \E p \in translate : p[1] = Upper(band)
    THEN [found |-> TRUE, key |-> (CHOOSE p \in translate : p[1] = Upper(band))[2]]
    ELSE [found |-> FALSE, key |-> <<>>]

(***************************************************************************)
(* The PSF files and get_psf.                                              *)
(***************************************************************************)
NoDirectory == [is_none |-> TRUE, path |-> <<>>]
Directory(d) == [is_none |-> FALSE, path |-> d]

\* a directory a caller passes as psf_directory
UserPsfDir == <<"p", "s", "f", "s">>

\* lines 211-213: os.path.join(os.path.dirname(__file__), "..", "data", "webbpsf")
PackagePsfDir ==
    <<"s", "l", "s", "i", "m", "/", ".", ".", "/", "d", "a", "t", "a", "/",
      "w", "e", "b", "b", "p", "s", "f">>

\* line 202: f"SCA{str(detector).zfill(2)}"
DetectorName(detector) == <<"S", "C", "A">> \o zfill(IntStr(detector), 2)

\* lines 205-207: the name of the file of a PSF
psf_file_name(band, detector, detector_pos, oversample) ==
    band \o <<"_">> \o DetectorName(detector)
         \o <<"_">> \o IntStr(detector_pos[1])
         \o <<"_">> \o IntStr(detector_pos[2])
         \o <<"_">> \o IntStr(oversample)
         \o <<".", "p", "k", "l">>

\* lines 208-213: the path get_psf looks at
psf_file_path(band, detector, detector_pos, oversample, psf_directory) ==
    IF ~ psf_directory.is_none
    THEN PathJoin(psf_directory.path, psf_file_name(band, detector, detector_pos, oversample))
    ELSE PathJoin(PackagePsfDir, psf_file_name(band, detector, detector_pos, oversample))

\* lines 219-223: the PSF the generator computes
calc_psf(band, detector, detector_pos, oversample) ==
    [origin |-> "calc_psf",
     filter |-> Upper(band),
     detector |-> DetectorName(detector),
     detector_position |-> detector_pos,
     oversample |-> oversample]

NoPsf ==
    [origin |-> "none", filter |-> <<>>, detector |-> <<>>,
     detector_position |-> <<>>, oversample |-> 0]

\* the content of a file: a pickled PSF generated ahead of time, or bytes
\* that are no pickle
Pickled(psf) == [valid |-> TRUE, psf |-> psf]
InvalidBytes == [valid |-> FALSE, psf |-> NoPsf]

Exists(files, path) == \E f \in files : f[1] = path
ContentAt(files, path) == (CHOOSE f \in files : f[1] = path)[2]
WriteFile(files, path, content) ==
    {f \in files : f[1] # path} \cup {<<path, content>>}

\* lines 226-229: the PSF as a galsim image at the oversampled pixel scale
\* 0.11 / oversample, kept as the fraction 11 / (100 * oversample)
GalsimPsf(psf, oversample) == [data |-> psf, scale |-> <<11, 100 * oversample>>]

\* lines 202-229: get_psf, given the files on disk
get_psf(band, detector, detector_pos, oversample, psf_directory, files) ==
    LET path == psf_file_path(band, detector, detector_pos, oversample, psf_directory)
    IN  IF Exists(files, path)
        THEN IF ContentAt(files, path).valid
             THEN [outcome |-> "ok", source |-> "file", path |-> path,
                   psf |-> GalsimPsf(ContentAt(files, path).psf, oversample)]
             ELSE [outcome |-> "UnpicklingError", source |-> "file", path |-> path,
                   psf |-> GalsimPsf(NoPsf, oversample)]
        ELSE [outcome |-> "ok", source |-> "calc_psf", path |-> path,
              psf |-> GalsimPsf(calc_psf(band, detector, detector_pos, oversample),
                                oversample)]

\* a get_psf that saves the PSF it computed
FilesAfterGetPsfSaving(files, result) ==
    IF result.source = "calc_psf"
    THEN WriteFile(files, result.path, Pickled(result.psf.data))
    ELSE files

\* lines 215-223: neither branch of get_psf writes a file
FilesAfterGetPsf(files, result) == files

(***************************************************************************)
(* simulate_roman_image.                                                   *)
(***************************************************************************)
\* line 79: "num_pix += 6", a buffer of 3 pixels on each side
BufferPixels == 6
\* line 154: "array[3:-3, 3:-3]"
CropPixels == 3

\* a working grid with the buffer added once, not on each side
PaddedNumPixOneSide(num_pix) == num_pix + CropPixels

\* line 79
PaddedNumPix(num_pix) == num_pix + BufferPixels

\* the length of a[lo:-hi] for a sequence of n items (Python slicing)
SliceLen(n, lo, hi) == Max(Max(n - hi, 0) - Min(lo, n), 0)

\* line 154: the shape of array[3:-3, 3:-3]
CroppedShape(shape) ==
    << SliceLen(shape[1], CropPixels, CropPixels),
       SliceLen(shape[2], CropPixels, CropPixels) >>

\* image_quality_lenstronomy.kwargs_single_band(observatory="Roman", band):
\* a new dict for each call; the pixel scale 0.11 is the fraction 11 / 100
kwargs_single_band(band) ==
    [exposure_time |-> <<"exposure_time", Upper(band)>>, pixel_scale |-> <<11, 100>>]

\* a detector-noise generator kept from one call to the next
NoiseRngShared(seed) ==
    [seed |-> seed, draws_before |-> IF lastImg = <<>> THEN 0 ELSE 1]

\* line 147: "rng = galsim.UniformDeviate(seed)", made in each call
NoiseRng(seed) == [seed |-> seed, draws_before |-> 0]

\* lines 232-274: the background added to an image of num_pix x num_pix
add_roman_background(image, band, detector, num_pix, exposure_time) ==
    [shape |-> IF image.shape = <<num_pix, num_pix>> THEN image.shape ELSE <<0, 0>>,
     ok |-> image.ok /\ image.shape = <<num_pix, num_pix>> /\ get_bandpass_key(band).found,
     light |-> image.light,
     psf |-> image.psf,
     background |-> [bandpass |-> get_bandpass_key(band).key,
                     detector |-> detector,
                     exposure_time |-> exposure_time],
     noise |-> image.noise]

NoBackground == [bandpass |-> <<>>, detector |-> 0, exposure_time |-> <<>>]
NoNoise == [seed |-> 0, draws_before |-> 0, applied |-> FALSE]

\* lines 79-157
simulate_roman_image(lens_class, band, num_pix, oversample, add_noise, with_source, with_deflector, detector, detector_pos, seed, psf_directory, files) ==
    LET padded == PaddedNumPix(num_pix)
        band_kwargs == kwargs_single_band(band)
        exposure_time == band_kwargs.exposure_time
        \* line 90: the pixel scale of the unconvolved image
        render_scale == <<band_kwargs.pixel_scale[1], band_kwargs.pixel_scale[2] * oversample>>
        \* lines 91-118: the unconvolved image, numpix = num_pix * oversample
        render_numpix == padded * oversample
        light == [lens |-> lens_class, band |-> band, scale |-> render_scale,
                  shape |-> <<render_numpix, render_numpix>>,
                  source_add |-> with_source, lens_light_add |-> with_deflector]
        \* line 131
        galsim_psf == get_psf(band, detector, detector_pos, oversample, psf_directory, files)
        \* lines 132-137: drawn on an image of num_pix x num_pix at scale 0.11
        drawn == [shape |-> <<padded, padded>>, ok |-> TRUE, light |-> light,
                  psf |-> galsim_psf.psf, background |-> NoBackground, noise |-> NoNoise]
        \* lines 139-150
        noisy == IF add_noise
                 THEN [add_roman_background(drawn, band, detector, padded, exposure_time)
                        EXCEPT !.noise = [seed |-> NoiseRng(seed).seed,
                                          draws_before |-> NoiseRng(seed).draws_before,
                                          applied |-> TRUE]]
                 ELSE drawn
    IN  IF galsim_psf.outcome # "ok"
        THEN [outcome |-> galsim_psf.outcome, shape |-> <<0, 0>>,
              padded |-> padded, render_numpix |-> render_numpix,
              psf_call |-> galsim_psf, pixels |-> drawn]
        ELSE IF ~ noisy.ok
        THEN [outcome |-> "error", shape |-> <<0, 0>>,
              padded |-> padded, render_numpix |-> render_numpix,
              psf_call |-> galsim_psf, pixels |-> noisy]
        ELSE \* lines 152-157: crop, divide by the exposure time
             [outcome |-> "ok", shape |-> CroppedShape(noisy.shape),
              padded |-> padded, render_numpix |-> render_numpix,
              psf_call |-> galsim_psf, pixels |-> noisy]

(***************************************************************************)
(* Inputs of the renderer.                                                 *)
(***************************************************************************)
\* line 191: "integer from 1 to 18"
NumDetectors == 18
Detectors == 1..NumDetectors
PsfBands == {F106, f106, F129}
DetectorPositions == {<<2000, 2000>>, <<200, 2000>>}
Oversamples == 1..MaxOversample
PsfDirectories == {NoDirectory, Directory(UserPsfDir)}

\* the PSF files that are generated ahead of time
PreGeneratedPaths ==
    {psf_file_path(F106, 1, <<2000, 2000>>, 1, d) : d \in PsfDirectories}
PreGeneratedPsf ==
    [calc_psf(F106, 1, <<2000, 2000>>, 1) EXCEPT !.origin = "generated ahead of time"]

ImageBands == {F106, F129}
ImageDetectors == {1}
ImagePositions == {<<2000, 2000>>}
LensClasses == {"lens"}
NumPixes == 1..MaxNumPix
NoiseSeeds == {7, 42}

(***************************************************************************)
(* Actions of the renderer and of its environment.                         *)
(***************************************************************************)
\* a PSF generated ahead of time is put in a directory
PreGeneratePsf ==
    \E path \in PreGeneratedPaths :
        /\ fs' = WriteFile(fs, path, Pickled(PreGeneratedPsf))
        /\ fs' # fs
        /\ fsChanged' = TRUE
        /\ UNCHANGED <<lastPsf, request, lastImg>>
        /\ UNCHANGED popVars

\* a file is left with bytes that are no pickle (a truncated copy)
DamagePsfFile ==
    \E path \in PreGeneratedPaths :
        /\ fs' = WriteFile(fs, path, InvalidBytes)
        /\ fs' # fs
        /\ fsChanged' = TRUE
        /\ UNCHANGED <<lastPsf, request, lastImg>>
        /\ UNCHANGED popVars

\* a file is deleted
RemovePsfFile ==
    \E f \in fs :
        /\ fs' = fs \ {f}
        /\ fsChanged' = TRUE
        /\ UNCHANGED <<lastPsf, request, lastImg>>
        /\ UNCHANGED popVars

\* the number of times the generator ran in the calls for `path` that end
\* with this one
GeneratorRuns(result) ==
    (IF lastPsf # <<>> /\ lastPsf[1].result.path = result.path
     THEN lastPsf[1].generator_runs ELSE 0)
    + (IF result.source = "calc_psf" THEN 1 ELSE 0)

GetPsf(band, detector, detector_pos, oversample, psf_directory) ==
    LET result == get_psf(band, detector, detector_pos, oversample, psf_directory, fs)
    IN  /\ GeneratorRuns(result) <= MaxRepeat
        /\ lastPsf' = << [band |-> band, detector |-> detector,
                          detector_pos |-> detector_pos, oversample |-> oversample,
                          psf_directory |-> psf_directory,
                          existed |-> Exists(fs, result.path),
                          result |-> result,
                          generator_runs |-> GeneratorRuns(result)] >>
        /\ fs' = FilesAfterGetPsf(fs, result)
        /\ UNCHANGED <<fsChanged, request, lastImg>>
        /\ UNCHANGED popVars

\* a get_psf call with arguments of the set `keys`
GetPsfCall(keys) ==
    \E k \in keys :
        GetPsf(k.band, k.detector, k.detector_pos, k.oversample, k.psf_directory)

ImageArgs ==
    [lens_class : LensClasses, band : ImageBands, num_pix : NumPixes,
     oversample : Oversamples, add_noise : BOOLEAN, with_source : BOOLEAN,
     with_deflector : {TRUE}, detector : ImageDetectors,
     detector_pos : ImagePositions, seed : NoiseSeeds,
     psf_directory : PsfDirectories]

\* lines 29-39: the default arguments, for one pixel of the F106 band
DefaultRequest ==
    [lens_class |-> "lens", band |-> F106, num_pix |-> 1, oversample |-> 5,
     add_noise |-> TRUE, with_source |-> TRUE, with_deflector |-> TRUE,
     detector |-> 1, detector_pos |-> <<2000, 2000>>, seed |-> 42,
     psf_directory |-> NoDirectory]

SimulateWith(a, files) ==
    simulate_roman_image(a.lens_class, a.band, a.num_pix, a.oversample, a.add_noise, a.with_source, a.with_deflector, a.detector, a.detector_pos, a.seed, a.psf_directory, files)

\* TRUE when this call repeats the last one: the same arguments, the files
\* on disk as they were
RepeatsLast(a) == lastImg # <<>> /\ lastImg[1].args = a /\ ~ fsChanged

Simulate(a) ==
    LET result == SimulateWith(a, fs)
        repeats == IF RepeatsLast(a) THEN lastImg[1].repeats + 1 ELSE 0
    IN  /\ repeats <= MaxRepeat
        /\ lastImg' = << [args |-> a,
                          result |-> result,
                          repeats |-> repeats,
                          previous |-> IF RepeatsLast(a) THEN lastImg[1].result
                                       ELSE result] >>
        /\ fs' = FilesAfterGetPsf(fs, result.psf_call)
        /\ fsChanged' = FALSE
        /\ UNCHANGED <<lastPsf, request>>
        /\ UNCHANGED popVars

\* the caller renders its request
SimulateCall == Simulate(request)

\* the arguments of the get_psf calls: all of them within one directory, and
\* those around the files generated ahead of time in both directories
KeyRequests ==
    [band : PsfBands, detector : Detectors, detector_pos : DetectorPositions,
     oversample : Oversamples, psf_directory : {Directory(UserPsfDir)}]
CacheRequests ==
    [band : {F106, f106}, detector : {1, 2}, detector_pos : {<<2000, 2000>>},
     oversample : Oversamples, psf_directory : PsfDirectories]

Init == InitPop /\ InitRoman /\ request = DefaultRequest

NextSample == Construct \/ SelectLens
SpecSample == Init /\ [][NextSample]_vars

NextDraw == Construct \/ DrawPopulationStart \/ DrawPopulationTrial \/ DrawPopulationReturn
SpecDraw == Init /\ [][NextDraw]_vars

NextKey == GetPsfCall(KeyRequests)
SpecKey == Init /\ [][NextKey]_vars

NextPsf == GetPsfCall(CacheRequests) \/ PreGeneratePsf \/ DamagePsfFile \/ RemovePsfFile
SpecPsf == Init /\ [][NextPsf]_vars

InitImage == InitPop /\ InitRoman /\ request \in ImageArgs
NextImage == SimulateCall \/ PreGeneratePsf \/ DamagePsfFile \/ RemovePsfFile
SpecImage == InitImage /\ [][NextImage]_vars

(***************************************************************************)
(* Claims about the population sampler.                                    *)
(***************************************************************************)
CatalogAccess == {"SkyPyPipeline", "pipeline.red_galaxies", "pipeline.blue_galaxies"}

\* C1: a constructor call that raises ValueError for an unsupported lens or
\* source type has, when it raises, neither constructed the catalog pipeline
\* nor read red_galaxies or blue_galaxies.
C1_RaisesBeforeCatalogAccess ==
    lastInit.outcome = "ValueError" =>
        \A k \in DOMAIN lastInit.trace : lastInit.trace[k] \notin CatalogAccess

SameSeedAndCuts(a, b) ==
    /\ a.seed = b.seed
    /\ a.kwargs_lens_cut = b.kwargs_lens_cut
    /\ a.kwargs_source_cut = b.kwargs_source_cut
    /\ a.cosmo = b.cosmo

C8_ReturnsAcceptedList ==
    dp.pc = "done" =>
        /\ dp.result.type = "list"
        /\ dp.result.items = dp.population

TrialOrder == <<"draw_galaxy", "draw_deflector", "GGLens", "validity_test">>

\* C10: draw_population runs exactly 100 trials whatever the estimated number
\* of lens systems is; each trial draws one source, then one deflector, builds
\* one GGLens and tests it once; the loop ends after the 100th trial, and the
\* number of accepted systems is the number of valid trials, between 0 and 100.
C10_HundredTrials ==
    /\ dp.pc = "loop" => dp.budget = NumTrials
    /\ dp.i <= NumTrials
    /\ dp.nSource = dp.i /\ dp.nDeflector = dp.i
    /\ dp.nGGLens = dp.i /\ dp.nValidity = dp.i
    /\ dp.i > 0 => dp.order = TrialOrder
    /\ Len(dp.population) = dp.nValid
    /\ dp.nValid <= dp.i
    /\ dp.pc = "loop" => (ENABLED DrawPopulationTrial) # (ENABLED DrawPopulationReturn)
    /\ dp.pc = "loop" /\ dp.i = NumTrials => ~ ENABLED DrawPopulationTrial
    /\ dp.pc = "done" =>
        /\ dp.i = NumTrials
        /\ dp.result.number = dp.nValid
        /\ dp.result.number >= 0 /\ dp.result.number <= NumTrials

\* a finished run of 100 trials that accepted some systems and rejected
\* others, with an estimate that is not 100
C10_Witness ==
    /\ dp.pc = "done"
    /\ dp.i = NumTrials
    /\ dp.num_lens_systems # NumTrials
    /\ dp.nValid > 0 /\ dp.nValid < NumTrials

(***************************************************************************)
(* Claims about the renderer.                                              *)
(***************************************************************************)
\* C2: an image simulate_roman_image returns is num_pix x num_pix; the working
\* grid is num_pix + 6 per axis, the unconvolved render (num_pix + 6) *
\* oversample per axis, and the crop [3:-3] gives back the requested size,
\* with and without noise.
C2_RequestedSize ==
    lastImg # <<>> /\ lastImg[1].result.outcome = "ok" =>
        /\ lastImg[1].result.shape = <<lastImg[1].args.num_pix, lastImg[1].args.num_pix>>
        /\ lastImg[1].result.padded = lastImg[1].args.num_pix + 6
        /\ lastImg[1].result.render_numpix
             = (lastImg[1].args.num_pix + 6) * lastImg[1].args.oversample
        /\ lastImg[1].result.pixels.light.shape
             = <<lastImg[1].result.render_numpix, lastImg[1].result.render_numpix>>

\* a noisy image of 2 x 2 pixels rendered at oversample 2 was returned
C2_Witness ==
    /\ lastImg # <<>>
    /\ lastImg[1].result.outcome = "ok"
    /\ lastImg[1].args.add_noise
    /\ lastImg[1].args.oversample = 2
    /\ lastImg[1].result.shape = <<2, 2>>
    /\ lastImg[1].result.render_numpix = 16

\* C3: when psf_directory is None, or the directory holds no file for the
\* requested PSF, get_psf computes the PSF with calc_psf and loads no file; a
\* PSF is loaded from a file only when a directory was passed and holds it.
C3_ComputedUnlessCached ==
    lastPsf # <<>> =>
        /\ (lastPsf[1].psf_directory.is_none \/ ~ lastPsf[1].existed)
             => lastPsf[1].result.source = "calc_psf"
        /\ lastPsf[1].result.source = "file"
             => (~ lastPsf[1].psf_directory.is_none /\ lastPsf[1].existed)

\* C4: a get_psf call that misses in a directory leaves a file for that PSF
\* in the directory, so that later calls load it and the generator does not
\* run again.
C4_CreatedOnFirstRequest ==
    [][(/\ lastPsf' # lastPsf
        /\ ~ lastPsf'[1].psf_directory.is_none
        /\ ~ lastPsf'[1].existed)
         => Exists(fs', lastPsf'[1].result.path)]_vars

\* C4, amended: get_psf never creates a cache entry. Every call leaves the
\* files as they are; it loads the file when there is one and runs the
\* generator when there is none, so a miss that follows a miss for the same
\* path runs the generator again.
C4_NeverCreated ==
    [][lastPsf' # lastPsf =>
        /\ fs' = fs
        /\ lastPsf'[1].existed = Exists(fs, lastPsf'[1].result.path)
        /\ lastPsf'[1].existed <=> lastPsf'[1].result.source = "file"
        /\ ~ lastPsf'[1].existed =>
             /\ lastPsf'[1].result.source = "calc_psf"
             /\ ~ Exists(fs', lastPsf'[1].result.path)
             /\ lastPsf'[1].generator_runs >= 1
        /\ (/\ lastPsf # <<>>
            /\ ~ lastPsf'[1].existed
            /\ lastPsf[1].result.path = lastPsf'[1].result.path)
             => lastPsf'[1].generator_runs = lastPsf[1].generator_runs + 1]_vars

\* two calls in a row missed for the same path of a passed directory, the
\* generator ran for both, and the file is still not there
C4_Witness ==
    /\ lastPsf # <<>>
    /\ ~ lastPsf[1].psf_directory.is_none
    /\ lastPsf[1].generator_runs = 2
    /\ lastPsf[1].result.source = "calc_psf"
    /\ ~ Exists(fs, lastPsf[1].result.path)

\* C5: get_psf never fails on a missing or an invalid file: it returns a PSF.
C5_NeverFails ==
    lastPsf # <<>> =>
        /\ lastPsf[1].result.outcome = "ok"
        /\ lastPsf[1].result.psf.data.origin # "none"

SamePsf(a, b) ==
    calc_psf(a.band, a.detector, a.detector_pos, a.oversample)
      = calc_psf(b.band, b.detector, b.detector_pos, b.oversample)

\* C9: within one directory two get_psf calls resolve to the same file if and
\* only if they ask for the same PSF; calls for different PSFs never share a
\* file, and calls that differ only in the letter case of the band share one.
C9_OneFilePerPsf ==
    [][(/\ lastPsf # <<>>
        /\ lastPsf' # lastPsf
        /\ lastPsf'[1].psf_directory = lastPsf[1].psf_directory)
         => ((lastPsf'[1].result.path = lastPsf[1].result.path)
               <=> SamePsf(lastPsf'[1], lastPsf[1]))]_vars

====
